---- MODULE Spec2Model ----
(***************************************************************************)
(* State-machine model of the question-generation page (Index) and of its  *)
(* endpoint delivery orchestration, runSubmit.  The repository holds five  *)
(* revisions of runSubmit; the model carries all of them and selects one   *)
(* with the variable `variant`:                                            *)
(*   "A"  src/client/pages/Index.tsx:415-606   (current page)              *)
(*   "B"  src/client/pages/Index.tsx:1375-1568 (proxies also on non-OK)    *)
(*   "C"  src/unnamed/part_001:94-228          (chat page, 3 fixed URLs)   *)
(*   "D"  src/unnamed/part_000:329-535         (AbortController, probes)   *)
(*   "E"  src/unnamed/part_001:557-714         (as D, two proxies)         *)
(* One action is one run of the code between two awaits.                   *)
(***************************************************************************)
EXTENDS Integers, Sequences, FiniteSets, TLC

VARIABLES
    variant,              \* which revision of the page is deployed
    API_URL,              \* the configured direct endpoint ("" when unset)
    file,                 \* Index state: File | null
    query,                \* Index state: string
    loading,              \* Index state: boolean
    error,                \* Index state: string | null
    result,               \* Index state: string | null
    selectedSubjectPath,  \* selector state: path of the chosen chapter or ""
    totalMarks,           \* selector state: number | null, <<n>> or <<>>
    chatFile,             \* AnimatedAIChat state: File | null
    chatValue,            \* AnimatedAIChat state: textarea text
    sub,                  \* the runSubmit invocations, one record per slot
    storage,              \* localStorage item "app:settings": its text, or null
    saved,                \* the settings last written to the item
    settings,             \* Index state: AppSettings
    mounted,              \* whether the page's mount effect has run
    download,             \* the last file offered for download
    relay,                \* the server's handler of the request being served
    paper,                \* the paper view: the text and its __html
    session               \* the router: the login kept, the location, the page shown

\* the state of the page's submission
page == <<variant, API_URL, file, query, loading, error, result,
          selectedSubjectPath, totalMarks, chatFile, chatValue, sub>>

\* the state beside it
beside == <<storage, saved, settings, mounted, download, relay, paper, session>>

\* the views outside the submission, its storage and its servers
aside == <<paper, session>>

vars == <<page, beside>>

\* ------------------------------------------------------------------ bounds
MaxSubs == 2              \* runSubmit invocations that may overlap
MaxLines == 5             \* pieces of a rendered text

Subs == 1..MaxSubs

\* --------------------------------------------------------------- constants
\* null of the string-valued state (error, result, arguments)
NULL == "<null>"

Variants == {"A", "B", "C", "D", "E"}

MAX_SIZE == 15 * 1024 * 1024

DIRECT_API_URL == "https://api-va5v.onrender.com/generate-questions"

\* A File: its MIME type, the extension of its lower-cased name, its size.
MkFile(t, e, n) == [type |-> t, ext |-> e, size |-> n]

\* `file` while no File is held (null)
NoFile == MkFile("<null>", "", 0)

UserFiles ==
    { MkFile("application/pdf", ".pdf", MAX_SIZE),
      MkFile("application/pdf", ".pdf", MAX_SIZE + 1),
      MkFile("text/plain", ".pdf", 1),
      MkFile("text/plain", ".txt", 1) }

\* The PDFs bundled under /datafiles, by path, with the size of each.
Chapters == {"/datafiles/9/physics/ch1.pdf", "/datafiles/9/physics/ch2.pdf"}

ChapterSize(p) == IF p = "/datafiles/9/physics/ch1.pdf" THEN 1 ELSE MAX_SIZE + 1

\* handleSelectChapter: new File([blob], found.name, {type: "application/pdf"})
ChapterFile(p) == MkFile("application/pdf", ".pdf", ChapterSize(p))

Queries == {"", "  ", " quiz "}
\* trim() left out
Trim_None(s) == s

\* String.prototype.trim on the strings of the model
Trim(s) == CASE s = "  " -> ""
             [] s = " quiz " -> "quiz"
             [] OTHER -> s

\* ---------------------------------------------------------------- responses

MkRes(s, c, b) == [status |-> s, ctype |-> c, body |-> b]

\* `res` while no Response is held (null)
NoRes == MkRes(0, "<null>", "")

Responses ==
    { MkRes(200, "application/json", "{\"questions\":\"X\"}"),
      MkRes(200, "application/json", "not json"),
      MkRes(200, "text/html", "<html>Not Found</html>"),
      MkRes(200, "text/plain", "Q1. text"),
      MkRes(404, "text/html", "<html>Not Found</html>"),
      MkRes(500, "", "") }

\* Response.ok
Ok(r) == r.status >= 200 /\ r.status <= 299

\* contentType.includes("application/json")
IsJson(r) == r.ctype = "application/json"

\* (content-type).includes("text/html")
IsHtml(r) == r.ctype = "text/html"

\* res.json(): whether the body parses
Parses(b) == b = "{\"questions\":\"X\"}"

\* json?.questions ?? json?.result ?? json?.message ?? JSON.stringify(json)
JsonText(b) == IF b = "{\"questions\":\"X\"}" THEN "X" ELSE b

\* `HTTP ${res.status}`
HttpStatusText(r) == CASE r.status = 404 -> "HTTP 404"
                       [] r.status = 500 -> "HTTP 500"
                       [] OTHER -> "HTTP 200"
\* the "HTTP <status>" fallback left out
Detail_BodyOnly(r) == r.body

\* detail || `HTTP ${res.status}`
Detail(r) == IF r.body # "" THEN r.body ELSE HttpStatusText(r)

\* The ways a fetch is rejected; the message of the TypeError is the browser's.
NetErrors == {"Failed to fetch", "NetworkError when attempting to fetch resource."}


\* ------------------------------------------------------- candidate endpoints
\* The ordered list of URLs runSubmit may POST to: the direct endpoint, a
\* candidate only when configured (if (API_URL) ...), and the proxies
Candidates(v, api) ==
    LET direct == IF api # "" THEN <<api>> ELSE <<>>
    IN  CASE v \in {"A", "B"} ->
               direct \o <<"/.netlify/functions/proxy", "/api/generate-questions",
                           "/api/proxy", "/proxy">>
          [] v = "C" -> <<"/api/proxy", "/api/generate-questions", DIRECT_API_URL>>
          [] v = "D" -> direct \o <<"/.netlify/functions/proxy", "/api/proxy", "/proxy">>
          [] OTHER   -> direct \o <<"/.netlify/functions/proxy", "/api/proxy">>

\* Whether candidate idx is the direct endpoint API_URL
IsDirect(v, api, idx) == v # "C" /\ api # "" /\ idx = 1
\* no revision aborts the fetch on timeout
Aborts_Never(v) == FALSE

\* sendTo ends the fetch at the timeout (AbortController) in C, D and E;
\* withTimeout of A and B rejects without aborting the underlying fetch.
Aborts(v) == v \in {"C", "D", "E"}

\* sendTo of C returns null only for AbortError, "aborted" and
\* "failed to fetch" messages and rethrows every other error; the sendTo of
\* the other revisions returns null for every error.
Rethrows(v, e) == v = "C" /\ e # "Failed to fetch"
\* every revision falls back to the raw text
StrictJson_None(v) == FALSE

\* res.json() is not guarded in C and E; A, B and D fall back to res.text()
StrictJson(v) == v \in {"C", "E"}

\* proxies are probed with checkEndpoint before the POST in D and E
Probes(v) == v \in {"D", "E"}

\* isBad of revision C: !res || !res.ok || res.status === 404 || HTML
IsBad(r) == r = NoRes \/ ~Ok(r) \/ r.status = 404 \/ IsHtml(r)

\* /^https?:/i.test(urlStr)
IsExternal(url) == url = DIRECT_API_URL

\* The body sendTo builds for urlStr: JSON {query} when there is no file
\* (A, B and D have that branch), else a FormData with pdf and query, and
\* with the file again as "file" for an external URL.
JsonBody == [type |-> "application/json", fields |-> {"query"}]
FormBody(fs) == [type |-> "multipart/form-data", fields |-> fs]

Body(v, url, theFile) ==
    IF theFile = NoFile /\ v \in {"A", "B", "D"}
    THEN JsonBody
    ELSE FormBody({"pdf", "query"} \cup
                  (IF IsExternal(url) THEN {"file"} ELSE {}))

\* ---------------------------------------------------------------- decisions
\* What runSubmit does next at an await boundary.
Send(i, r)  == [kind |-> "send",   idx |-> i, res |-> r, msg |-> ""]
Probe(i, r) == [kind |-> "probe",  idx |-> i, res |-> r, msg |-> ""]
Finish(i, r) == [kind |-> "finish", idx |-> i, res |-> r, msg |-> ""]
Throw(i, m) == [kind |-> "throw",  idx |-> i, res |-> NoRes, msg |-> m]

\* The proxy loop moves on to the next proxy, or leaves the loop with res.
NextProxy(v, api, idx, r) ==
    IF idx < Len(Candidates(v, api))
    THEN IF Probes(v) THEN Probe(idx + 1, r) ELSE Send(idx + 1, r)
    ELSE Finish(idx, r)

\* runSubmit after sendTo(candidate idx) returned o (a Response or null);
\* res is the value of the variable res before the call.  A decision carries
\* the value of res that the code can still read: C overwrites res with the
\* result of the next sendTo before reading it again.
AfterSend(v, api, idx, res, o) ==
    CASE v = "A" ->
           IF IsDirect(v, api, idx)
           THEN IF o # NoRes THEN Finish(idx, o) ELSE NextProxy(v, api, idx, NoRes)
           ELSE IF o # NoRes /\ Ok(o) THEN Finish(idx, o)
                ELSE NextProxy(v, api, idx, res)
      [] v = "B" ->
           IF IsDirect(v, api, idx)
           THEN IF o # NoRes /\ Ok(o) THEN Finish(idx, o)
                ELSE NextProxy(v, api, idx, o)
           ELSE IF o # NoRes /\ Ok(o) THEN Finish(idx, o)
                ELSE NextProxy(v, api, idx, res)
      [] v = "C" ->
           IF idx = 1
           THEN IF o = NoRes \/ ~Ok(o) THEN Send(2, NoRes)
                ELSE IF IsBad(o) THEN Send(3, NoRes) ELSE Finish(idx, o)
           ELSE IF idx = 2
                THEN IF IsBad(o) THEN Send(3, NoRes) ELSE Finish(idx, o)
                ELSE Finish(idx, o)
      [] OTHER ->
           IF o # NoRes THEN Finish(idx, o) ELSE NextProxy(v, api, idx, NoRes)

\* the proxy loop of D and E after checkEndpoint(candidate idx) returned ok
AfterProbe(v, api, idx, ok) ==
    IF ok THEN Send(idx, NoRes) ELSE NextProxy(v, api, idx, NoRes)

\* the first await of the try block
FirstStep(v, api) ==
    IF v = "E" /\ api = "" THEN Probe(1, NoRes) ELSE Send(1, NoRes)

\* What the response handling of runSubmit shows for the final res.
ShowError(m)  == [out |-> "error",  shown |-> m]
ShowResult(t) == [out |-> "result", shown |-> t]

Outcome(v, res) ==
    IF res = NoRes
    THEN ShowError(IF v = "C" THEN "Request timed out or was aborted" ELSE "Network or CORS error. If deployed on Netlify set VITE_PREDICT_ENDPOINT=... Alternatively, enable CORS on the API.")
    ELSE IF ~Ok(res) THEN ShowError(Detail(res))
    ELSE IF IsJson(res)
         THEN IF Parses(res.body) THEN ShowResult(JsonText(res.body))
              ELSE IF StrictJson(v) THEN ShowError("Unexpected token in JSON")
                   ELSE ShowResult(res.body)
         ELSE ShowResult(res.body)

\* ------------------------------------------------------------------- slots
Pending == {"send", "probe"}

IdleSub == [pc |-> "idle", theFile |-> NoFile, q |-> "", idx |-> 0,
            res |-> NoRes, calls |-> 0, late |-> 0, fails |-> 0,
            skipped |-> NoRes, toasts |-> 0,
            out |-> "none", shown |-> NULL, alone |-> TRUE,
            older |-> {}, overtaken |-> FALSE,
            sent |-> {}, tmo |-> "none"]

\* the slot a new invocation of runSubmit runs in
FreeSlots == {s \in Subs : sub[s].pc \notin Pending}
NewSlot == CHOOSE s \in FreeSlots : \A t \in FreeSlots : s <= t

\* The frames that still exist: the frame of an invocation that has returned
\* is kept for one step, so that its outcome can be read, and then dropped.
Live == [t \in Subs |-> IF sub[t].pc = "done" THEN IdleSub ELSE sub[t]]

\* Another writer touched error, result or loading: the invocations that are
\* pending, other than the writer, no longer run alone.
Disturb(f, actor) ==
    [t \in Subs |-> IF t # actor /\ f[t].pc \in Pending
                    THEN [f[t] EXCEPT !.alone = FALSE] ELSE f[t]]

\* Invocation s has returned: the invocations that were pending when s
\* started, and still are, have been overtaken by a later one.
Returned(f, s) ==
    [t \in Subs |->
        IF t # s /\ f[t].pc \in Pending
        THEN IF t \in f[s].older
             THEN [f[t] EXCEPT !.overtaken = TRUE]
             ELSE [f[t] EXCEPT !.older = @ \ {s}]
        ELSE f[t]]

\* The setting whose value sendTo gets as timeoutMs for candidate idx:
\* settings.initialTimeoutMs for the direct endpoint (the first URL in C),
\* settings.retryTimeoutMs for every other candidate.
TimeoutMs(v, api, idx) ==
    IF IsDirect(v, api, idx) \/ (v = "C" /\ idx = 1)
    THEN "initialTimeoutMs" ELSE "retryTimeoutMs"

\* the timeout of the request that decision d issues
Timer(v, api, d) ==
    IF d.kind = "send" THEN TimeoutMs(v, api, d.idx) ELSE "checkEndpoint"

\* the finally block left out: loading keeps its value
FinallyLoading_Missing(l) == l

\* finally { setLoading(false) }
FinallyLoading(l) == FALSE

\* the candidates POSTed to so far, once decision d is carried out
Posted(sent, d) == IF d.kind = "send" THEN sent \cup {d.idx} ELSE sent

\* Carry out decision d of invocation s, whose record is now rec.
Apply(s, rec, d) ==
    CASE d.kind \in {"send", "probe"} ->
           /\ sub' = [Live EXCEPT ![s] = [rec EXCEPT !.pc = d.kind,
                                                    !.idx = d.idx,
                                                    !.res = d.res,
                                                    !.calls = @ + 1,
                                                    !.sent = Posted(@, d),
                                                    !.tmo = Timer(variant, API_URL, d)]]
           /\ UNCHANGED <<error, result, loading>>
      [] d.kind = "finish" ->
           LET o == Outcome(variant, d.res) IN
           /\ sub' = Disturb(Returned([Live EXCEPT ![s] =
                         [rec EXCEPT !.pc = "done", !.idx = d.idx,
                                     !.res = d.res, !.out = o.out,
                                     !.shown = o.shown,
                                     !.toasts = IF o.out = "error"
                                                THEN @ + 1 ELSE @]], s), s)
           /\ error' = IF o.out = "error" THEN o.shown ELSE error
           /\ result' = IF o.out = "result" THEN o.shown ELSE result
           /\ loading' = FinallyLoading(loading)
      [] OTHER ->
           /\ sub' = Disturb(Returned([Live EXCEPT ![s] =
                         [rec EXCEPT !.pc = "done", !.idx = d.idx,
                                     !.out = "error", !.shown = d.msg,
                                     !.toasts = @ + 1]], s), s)
           /\ error' = d.msg
           /\ result' = result
           /\ loading' = FinallyLoading(loading)
\* the negation of endsWith(".pdf") lost
NotPdf_LostNegation(f) == f.type # "application/pdf" /\ f.ext = ".pdf"

\* --------------------------------------------------------------- validation
\* f.type !== "application/pdf" && !f.name.toLowerCase().endsWith(".pdf")
NotPdf(f) == f.type # "application/pdf" /\ f.ext # ".pdf"

\* validateFile of AnimatedAIChat
validateFile(f) == ~NotPdf(f) /\ f.size <= MAX_SIZE

\* ---------------------------------------------------------------- settings
\* AppSettings, in the order of its keys
Fields == <<"initialTimeoutMs", "retryTimeoutMs", "autoRetry", "defaultQuery">>

\* the defaults with a timeout below the documented minimum
DEFAULT_SETTINGS_Short ==
    [initialTimeoutMs |-> 2500, retryTimeoutMs |-> 55000,
     autoRetry |-> TRUE, defaultQuery |-> ""]

DEFAULT_SETTINGS ==
    [initialTimeoutMs |-> 25000, retryTimeoutMs |-> 55000,
     autoRetry |-> TRUE, defaultQuery |-> ""]

\* localStorage.getItem of a key that was never set
NoItem == <<>>

\* JSON text, as its sequence of tokens; a token is its kind and its characters
Tok(k, cs) == [kind |-> k, text |-> cs]
Punct(c) == Tok("punct", <<c>>)

Digit(d) == <<"0", "1", "2", "3", "4", "5", "6", "7", "8", "9">>[d + 1]

\* the decimal digits of a natural number
RECURSIVE ToDigits(_)
ToDigits(n) ==
    IF n < 10 THEN <<Digit(n)>> ELSE ToDigits(n \div 10) \o <<Digit(n % 10)>>

\* the number a sequence of decimal digits denotes
RECURSIVE FromDigits(_)
FromDigits(cs) ==
    IF cs = <<>> THEN 0
    ELSE 10 * FromDigits(SubSeq(cs, 1, Len(cs) - 1))
             + (CHOOSE d \in 0..9 : Digit(d) = cs[Len(cs)])

\* JSON.stringify of the value of field k
Encode(k, v) ==
    CASE k \in {"initialTimeoutMs", "retryTimeoutMs"} -> Tok("number", ToDigits(v))
      [] k = "autoRetry" -> Tok("literal", <<IF v THEN "true" ELSE "false">>)
      [] OTHER -> Tok("string", <<v>>)

\* the value a JSON token denotes
Decode(t) ==
    CASE t.kind = "number" -> FromDigits(t.text)
      [] t.kind = "literal" -> (t.text = <<"true">>)
      [] OTHER -> t.text[1]

\* JSON.stringify of the members of object p named from the i-th key on
RECURSIVE Members(_, _, _, _)
Members(keys, p, i, first) ==
    IF i > Len(keys) THEN <<>>
    ELSE IF keys[i] \notin DOMAIN p THEN Members(keys, p, i + 1, first)
    ELSE (IF first THEN <<>> ELSE <<Punct(",")>>)
         \o <<Tok("string", <<keys[i]>>), Punct(":"), Encode(keys[i], p[keys[i]])>>
         \o Members(keys, p, i + 1, FALSE)

\* JSON.stringify(p) of an object whose keys are among keys, in their order
Serialise(keys, p) ==
    <<Punct("{")>> \o Members(keys, p, 1, TRUE) \o <<Punct("}")>>

\* JSON.stringify(p) of a partial AppSettings
Stringify(p) == Serialise(Fields, p)

\* whether the tokens from position i on are members followed by "}"
RECURSIVE WellFormed(_, _)
WellFormed(ts, i) ==
    IF i > Len(ts) THEN FALSE
    ELSE IF ts[i] = Punct("}") THEN i = Len(ts)
    ELSE /\ i + 3 <= Len(ts)
         /\ ts[i].kind = "string"
         /\ ts[i + 1] = Punct(":")
         /\ ts[i + 2].kind \in {"number", "literal", "string"}
         /\ \/ ts[i + 3] = Punct("}") /\ i + 3 = Len(ts)
            \/ ts[i + 3] = Punct(",") /\ i + 4 < Len(ts)
                  /\ ts[i + 4].kind = "string" /\ WellFormed(ts, i + 4)

\* JSON.parse throws a SyntaxError on this text
Unparsable(ts) == ts = <<>> \/ ts[1] # Punct("{") \/ ~WellFormed(ts, 2)

\* JSON.parse(raw) of a well-formed object: a later member of a name wins
Parse(ts) ==
    LET names == {i \in 2..Len(ts) : i % 4 = 2 /\ ts[i].kind = "string"}
    IN  [k \in {ts[i].text[1] : i \in names} |->
            LET last == CHOOSE i \in names :
                           /\ ts[i].text[1] = k
                           /\ \A j \in names : ts[j].text[1] = k => j <= i
            IN  Decode(ts[last + 2])]

\* { ...parsed, ...DEFAULT_SETTINGS }: the spread in the other order
Merge_DefaultsWin(d, parsed) ==
    [k \in DOMAIN d \cup DOMAIN parsed |-> IF k \in DOMAIN d THEN d[k] ELSE parsed[k]]

\* { ...DEFAULT_SETTINGS, ...parsed }
Merge(d, parsed) ==
    [k \in DOMAIN d \cup DOMAIN parsed |-> IF k \in DOMAIN parsed THEN parsed[k] ELSE d[k]]

\* the settings after the mount effect read raw: unchanged when the item is
\* absent or empty, or when JSON.parse threw
Loaded(cur, raw) ==
    IF raw = NoItem \/ Unparsable(raw) THEN cur
    ELSE Merge(DEFAULT_SETTINGS, Parse(raw))

\* the smallest timeout the Settings data model admits
MinTimeoutMs == 5000

\* what the settings page may write: any part of a valid AppSettings
SavedValues(k) ==
    CASE k = "initialTimeoutMs" -> {MinTimeoutMs, 30000}
      [] k = "retryTimeoutMs" -> {MinTimeoutMs, 60000}
      [] k = "autoRetry" -> BOOLEAN
      [] OTHER -> {"", "physics"}

\* the partial settings over the fields from the i-th on
RECURSIVE PartialsFrom(_)
PartialsFrom(i) ==
    IF i > Len(Fields) THEN {<<>>}
    ELSE LET ps == PartialsFrom(i + 1)
             With(p, v) == [k \in DOMAIN p \cup {Fields[i]} |->
                               IF k = Fields[i] THEN v ELSE p[k]]
         IN  ps \cup {With(p, v) : p \in ps, v \in SavedValues(Fields[i])}

Partials == PartialsFrom(1)

\* ---------------------------------------------------------------- filenames
\* text as the sequence of its characters
LowerAlpha ==
    <<"a", "b", "c", "d", "e", "f", "g", "h", "i", "j", "k", "l", "m", "n",
      "o", "p", "q", "r", "s", "t", "u", "v", "w", "x", "y", "z">>

UpperAlpha ==
    <<"A", "B", "C", "D", "E", "F", "G", "H", "I", "J", "K", "L", "M", "N",
      "O", "P", "Q", "R", "S", "T", "U", "V", "W", "X", "Y", "Z">>

Letters(alpha) == {alpha[i] : i \in 1..Len(alpha)}

\* String.prototype.toLowerCase, one character
Lower(c) ==
    IF c \in Letters(UpperAlpha)
    THEN LowerAlpha[CHOOSE i \in 1..Len(UpperAlpha) : UpperAlpha[i] = c]
    ELSE c

\* \s
Space == {" ", "\t", "\n", "\r"}

IsSpace(c) == c \in Space
\* [a-z0-9_-]
IsSlugChar(c) ==
    c \in Letters(LowerAlpha) \cup {Digit(d) : d \in 0..9} \cup {"_", "-"}

\* String.prototype.trim, on characters
RECURSIVE TrimSeq(_)
TrimSeq(cs) ==
    IF cs = <<>> THEN cs
    ELSE IF IsSpace(Head(cs)) THEN TrimSeq(Tail(cs))
    ELSE IF IsSpace(cs[Len(cs)]) THEN TrimSeq(SubSeq(cs, 1, Len(cs) - 1))
    ELSE cs

\* String.prototype.slice(0, n)
Slice(cs, n) == SubSeq(cs, 1, IF Len(cs) < n THEN Len(cs) ELSE n)

verbs ==
    <<<<"m", "a", "k", "e">>,
      <<"g", "e", "n", "e", "r", "a", "t", "e">>,
      <<"p", "r", "o", "d", "u", "c", "e">>,
      <<"c", "r", "e", "a", "t", "e">>,
      <<"g", "i", "v", "e">>,
      <<"w", "r", "i", "t", "e">>,
      <<"p", "l", "e", "a", "s", "e">>,
      <<"b", "u", "i", "l", "d">>,
      <<"c", "o", "m", "p", "o", "s", "e">>,
      <<"f", "o", "r", "m">>>>

\* new RegExp("^" + v + "\\s+", "i").test(cs)
TestVerb(cs, v) ==
    /\ Len(cs) > Len(v)
    /\ \A i \in 1..Len(v) : Lower(cs[i]) = v[i]
    /\ IsSpace(cs[Len(v) + 1])

\* for (const v of verbs) if (re.test(s)) s = s.replace(re, "").trim()
RECURSIVE ForVerbs(_, _)
ForVerbs(cs, i) ==
    IF i > Len(verbs) THEN cs
    ELSE ForVerbs(IF TestVerb(cs, verbs[i])
                  THEN TrimSeq(SubSeq(cs, Len(verbs[i]) + 1, Len(cs)))
                  ELSE cs, i + 1)

\* while (changed) { ... }: a pass changes s exactly when it shortens it
RECURSIVE WhileChanged(_)
WhileChanged(cs) ==
    LET t == ForVerbs(cs, 1) IN IF t = cs THEN cs ELSE WhileChanged(t)

\* s.replace(/^['"]+|['"]+$/g, "")
RECURSIVE StripQuotes(_)
StripQuotes(cs) ==
    IF cs = <<>> THEN cs
    ELSE IF Head(cs) \in {"'", "\""} THEN StripQuotes(Tail(cs))
    ELSE IF cs[Len(cs)] \in {"'", "\""}
    THEN StripQuotes(SubSeq(cs, 1, Len(cs) - 1))
    ELSE cs

\* [a-z0-9\s_-]
Kept(c) == IsSlugChar(c) \/ IsSpace(c)

\* replace(/\s+/g, "_")
RECURSIVE Underscores(_)
Underscores(cs) ==
    IF cs = <<>> THEN <<>>
    ELSE IF IsSpace(Head(cs))
    THEN (IF Len(cs) > 1 /\ IsSpace(cs[2]) THEN <<>> ELSE <<"_">>)
         \o Underscores(Tail(cs))
    ELSE <<Head(cs)>> \o Underscores(Tail(cs))

\* makeFilenameFromPrompt(q), with the name it falls back to
makeFilenameFromPrompt(q, fallback) ==
    LET raw == TrimSeq(q)
        s == TrimSeq(StripQuotes(WhileChanged(raw)))
        cut == Slice(s, 60)
        lower == [i \in 1..Len(cut) |-> Lower(cut[i])]
        out == Underscores(TrimSeq(SelectSeq(lower, Kept)))
    IN  IF raw = <<>> \/ out = <<>> THEN fallback ELSE out

\* the fallback of the download of revision v: "exam-paper" or "questions"
Fallback(v) ==
    IF v = "B" THEN <<"e", "x", "a", "m", "-", "p", "a", "p", "e", "r">>
    ELSE <<"q", "u", "e", "s", "t", "i", "o", "n", "s">>

\* the chat's safeQuery
chatSafeQuery(q) ==
    LET cut == Slice(TrimSeq(q), 50)
        \* replace(/[^a-z0-9_-]/gi, "_")
        out == [i \in 1..Len(cut) |->
                   IF IsSlugChar(Lower(cut[i])) THEN cut[i] ELSE "_"]
    IN  IF out = <<>> THEN Fallback("C") ELSE out

\* safeQuery of the download of revision v
safeQuery(v, q) ==
    IF v = "C" THEN chatSafeQuery(q) ELSE makeFilenameFromPrompt(q, Fallback(v))

\* the extension of the download of revision v
Extension(v) == IF v = "C" THEN <<".", "t", "x", "t">> ELSE <<".", "p", "d", "f">>

\* toISOString().replace(/[:.]/g, "-")
Stamp(iso) == [i \in 1..Len(iso) |-> IF iso[i] \in {":", "."} THEN "-" ELSE iso[i]]

\* `${safeQuery}_${stamp}.pdf`
Filename(v, q, iso) == safeQuery(v, q) \o <<"_">> \o Stamp(iso) \o Extension(v)

\* new Date().toISOString() at two instants
Instants ==
    { <<"2", "0", "2", "4", "-", "0", "1", "-", "0", "2", "T", "0", "3", ":", "0", "4", ":", "0", "5", ".", "6", "7", "8", "Z">>,
      <<"2", "0", "2", "5", "-", "1", "1", "-", "1", "2", "T", "1", "3", ":", "1", "4", ":", "1", "5", ".", "0", "0", "0", "Z">> }

\* pieces of the queries a user types
Pieces ==
    <<<<"m", "a", "k", "e", " ">>,
      <<"G", "e", "n", "e", "r", "a", "t", "e", " ">>,
      <<"p", "l", "e", "a", "s", "e", " ", " ">>,
      <<"q", "u", "i", "z">>,
      <<"'", "m", "a", "k", "e", " ", "q", "u", "i", "z", "'">>,
      <<"Q", "u", "i", "z", " ", "1">>,
      <<"\"">>,
      <<"!">>,
      <<" ">>,
      <<"c", "h", "-", "1", "_", "a">>,
      <<"a", "b", "c", "d", "e", "f", "g", "h", "i", "j", "k", "l", "m", "n", "o", "p", "q", "r", "s", "t", "u", "v", "w", "x", "y", "z", "0", "1", "2", "3">>>>

\* the longest query, in pieces
MaxPieces == 3

RECURSIVE Joined(_)
Joined(n) ==
    IF n = 0 THEN {<<>>}
    ELSE LET shorter == Joined(n - 1)
         IN  shorter \cup {q \o Pieces[i] : q \in shorter, i \in 1..Len(Pieces)}

\* -------------------------------------------------------------- total marks
\* Math.max(20, ...) left out
Clamp_Upper(n) == IF n > 100 THEN 100 ELSE n

\* Math.min(100, Math.max(20, n))
Clamp(n) == IF n > 100 THEN 100 ELSE IF n < 20 THEN 20 ELSE n

\* buildPaperSchemePrompt(...): the prompt the selector generates for the marks
GeneratedPrompt(marks) ==
    LET RECURSIVE Cat(_)
        Cat(cs) == IF cs = <<>> THEN "" ELSE Head(cs) \o Cat(Tail(cs))
    IN  "Generate a complete exam-style question paper ... of total "
        \o (IF marks < 0 THEN "-" \o Cat(ToDigits(0 - marks)) ELSE Cat(ToDigits(marks)))
        \o " marks. ..."

\* the values typed into the Total Marks input ("" is null) or set by the
\* quick buttons
EnteredMarks ==
    {<<>>} \cup {<<n>> : n \in {0 - 5, 0, 19, 21, 30, 50, 99, 100, 101, 1000}}

\* ---------------------------------------------------------------- downloads
\* nothing was downloaded yet, the query being q
NoDownload(q) == [by |-> "none", q |-> q, slug |-> <<>>, name |-> <<>>]

\* -------------------------------------------------------------------- relay
\* a field or header that is absent
Absent == "<absent>"

\* const query = (body?.query ?? body?.q ?? "").toString()
QueryOf(body) ==
    IF body.query # Absent THEN body.query
    ELSE IF body.q # Absent THEN body.q ELSE ""

\* the bodies of the requests the relay receives
Requests ==
    [files : SUBSET {"pdf", "file"},
     body : [query : {Absent, "", "quiz"}, q : {Absent, "alt"}]]

\* upstream.text(): the text the tokens stand for
RECURSIVE Text(_)
Text(ts) ==
    LET RECURSIVE Cat(_)
        Cat(cs) == IF cs = <<>> THEN "" ELSE Head(cs) \o Cat(Tail(cs))
        t == Head(ts)
    IN  IF ts = <<>> THEN ""
        ELSE (IF t.kind = "string" THEN "\"" \o t.text[1] \o "\""
              ELSE Cat(t.text)) \o Text(Tail(ts))

\* res.json(v): the body sent for the object v, its keys in a fixed order
ResJson(v) ==
    Serialise(<<"questions", "result", "message", "error", "detail">>, v)

\* bodies of the upstream API: JSON, JSON cut short, text, nothing
UpBodies ==
    { ResJson([questions |-> "X"]),
      ResJson([result |-> "Y", message |-> "m"]),
      SubSeq(ResJson([questions |-> "X"]), 1, 3),
      <<Tok("text", <<"Q1. text">>)>>,
      <<>> }

MkUp(s, st, c, b, r) ==
    [status |-> s, statusText |-> st, ctype |-> c, body |-> b, readable |-> r]

\* `upstream` while the fetch has not resolved
NoUp == MkUp(0, "", Absent, <<>>, FALSE)

Upstreams ==
    { MkUp(s[1], s[2], c, b, r) :
        s \in {<<200, "OK">>, <<201, "Created">>, <<404, "Not Found">>,
                <<500, "Internal Server Error">>},
        c \in {"application/json", "application/json; charset=utf-8",
               "text/plain", Absent},
        b \in UpBodies,
        r \in BOOLEAN }

\* the upstream's error answer taken for a success
UpOk_Always(u) == TRUE

\* upstream.ok
UpOk(u) == u.status >= 200 /\ u.status <= 299

\* upstream.headers.get("content-type") || ""
contentType(u) == IF u.ctype = Absent THEN "" ELSE u.ctype

\* contentType.includes("application/json")
IncludesJson(c) == c \in {"application/json", "application/json; charset=utf-8"}

\* the text wrapped under another key
Wrapped_AsMessage(text) == [message |-> text]

\* { result: text }
Wrapped(text) == [result |-> text]

MkAnswer(s, v) == [status |-> s, body |-> ResJson(v)]

\* the catch block, for an error that is no AbortError
InternalError(msg) ==
    MkAnswer(500, [error |-> "Internal server error", detail |-> msg])

\* handleGenerate once the fetch resolved with u
Answer(u) ==
    IF ~UpOk(u)
    THEN MkAnswer(u.status,
                  [error |-> "Upstream error",
                   detail |-> IF u.readable THEN Text(u.body) ELSE u.statusText])
    ELSE IF ~u.readable THEN InternalError("terminated")
    ELSE IF IncludesJson(contentType(u))
    THEN IF Unparsable(u.body) THEN InternalError("Unexpected token in JSON")
         ELSE MkAnswer(200, Parse(u.body))
    ELSE MkAnswer(200, Wrapped(Text(u.body)))

\* the handler while no request is served
RelayIdle ==
    [pc |-> "idle", form |-> {}, query |-> "", up |-> NoUp, thrown |-> "",
     sent |-> 0, res |-> [status |-> 0, body |-> <<>>]]

\* the paper view before anything is rendered
NoPaper(txt) == [txt |-> txt, renumbered |-> <<>>, html |-> <<>>, shown |-> FALSE]

\* ------------------------------------------------------------------ router
\* the session of a visitor who is logged in or not, at the location path
\* showing the page el; lib/auth keeps the login under the email given to it
MkSession(user, path, el) ==
    [authed |-> user # <<>>, user |-> user, pathname |-> path, page |-> el,
     email |-> <<>>, password |-> "", toast |-> ""]

DEMO_EMAIL == <<"d", "e", "m", "o", "@", "d", "e", "m", "o", ".", "c", "o", "m">>

\* isLoggedIn() of lib/auth
isLoggedIn(se) == se.authed

\* login(em) of lib/auth
login(se, em) == [se EXCEPT !.authed = TRUE, !.user = em]

\* the children of <Routes> of AnimatedRoutes outside /login, in their order
AppRoutes ==
    <<[path |-> "/", page |-> "Index", guarded |-> FALSE],
      [path |-> "/settings", page |-> "Settings", guarded |-> FALSE],
      [path |-> "/", page |-> "Index", guarded |-> TRUE],
      [path |-> "/settings", page |-> "Settings", guarded |-> TRUE],
      [path |-> "*", page |-> "NotFound", guarded |-> FALSE]>>

\* the route <Routes> renders for the location: of the routes of the same
\* rank the one that comes first, the splat route last
Matched(path) ==
    LET same == {i \in 1..Len(AppRoutes) : AppRoutes[i].path = path}
    IN  IF same = {} THEN AppRoutes[Len(AppRoutes)]
        ELSE AppRoutes[CHOOSE i \in same : \A j \in same : i <= j]

\* AnimatedRoutes at the location path for a visitor who is authed or not:
\* where the router ends and the page it shows
Rendered(path, authed) ==
    IF path = "/login" THEN [pathname |-> "/login", page |-> "Login"]
    ELSE IF Matched(path).guarded /\ ~authed
    THEN [pathname |-> "/login", page |-> "Login"]
    ELSE [pathname |-> path, page |-> Matched(path).page]

\* the views outside the submission while they are not observed
Aside ==
    /\ paper = NoPaper(<<>>)
    /\ session = MkSession(DEMO_EMAIL, "/", "Index")

\* the state beside the submission while only the submission is observed
Beside ==
    /\ storage = NoItem
    /\ saved = <<>>
    /\ settings = DEFAULT_SETTINGS
    /\ mounted = TRUE
    /\ download = NoDownload(<<>>)
    /\ relay = RelayIdle
    /\ Aside

\* ------------------------------------------------------------------- paper
\* A text is a sequence of characters; the markup the formatter inserts is one
\* element per tag.
\* pieces of the texts the upstream answers with, each ending its line
PaperPieces ==
    <<<<"Q", "7", ".", " ", "x", "<", "\n">>,
      <<"S", "e", "c", "t", "i", "o", "n", " ", "A", "\r", "\n">>,
      <<" ", "q", "1", "2", ".", "*", "*", "b", "*", "*", "\n", "\n">>,
      <<"S", "E", "C", "T", "I", "O", "N", " ", "-", "&", "'", "\n">>,
      <<"a", ")", " ", "\"", "y", "\"", ">", "\n">>,
      <<"Q", "3", ".", "\n">>,
      <<"S", "e", "c", "t", "i", "o", "n", "s", " ", "Q", "1", ".">>>>

\* the texts of at most n pieces
RECURSIVE Papers(_)
Papers(n) ==
    IF n = 0 THEN {<<>>}
    ELSE LET shorter == Papers(n - 1)
         IN  shorter \cup {t \o PaperPieces[i] : t \in shorter, i \in 1..Len(PaperPieces)}

\* the first position of s from i on whose character is outside cs (in = TRUE)
\* or inside cs (in = FALSE), Len(s) + 1 when there is none
Skip(s, i, cs, in) ==
    LET hits == {j \in i..Len(s) : s[j] \in cs}
    IN  IF in
        THEN CHOOSE j \in i..Len(s) + 1 :
                /\ \A k \in i..j - 1 : s[k] \in cs
                /\ j = Len(s) + 1 \/ s[j] \notin cs
        ELSE IF hits = {} THEN Len(s) + 1
        ELSE CHOOSE j \in hits : \A k \in hits : j <= k

\* txt.split(/\r?\n/)
RECURSIVE Split(_)
Split(txt) ==
    LET e == Skip(txt, 1, {"\n"}, FALSE)
        cut == IF e > 1 /\ txt[e - 1] = "\r" THEN e - 2 ELSE e - 1
    IN  IF e > Len(txt) THEN <<txt>>
        ELSE <<SubSeq(txt, 1, cut)>> \o Split(SubSeq(txt, e + 1, Len(txt)))

\* out.join("\n")
RECURSIVE Join(_)
Join(lines) ==
    IF Len(lines) = 1 THEN lines[1]
    ELSE lines[1] \o <<"\n">> \o Join(Tail(lines))

\* /Section\s+[A-Z0-9\-\u2013]/i matched at position k of s: 0, or the position
\* of the character after the spaces (no text here holds the dash \u2013)
SectionAt(s, k) ==
    LET m == Skip(s, k + 7, Space, TRUE)
    IN  IF /\ k + 8 <= Len(s)
           /\ \A i \in 1..7 :
                 Lower(s[k + i - 1]) = <<"s", "e", "c", "t", "i", "o", "n">>[i]
           /\ m > k + 7
           /\ m <= Len(s)
           /\ Lower(s[m]) \in Letters(LowerAlpha) \cup {Digit(d) : d \in 0..9} \cup {"-"}
        THEN m ELSE 0

\* /Q\d+\./i matched at position k of s: 0, or the position of the "."
QAt(s, k) ==
    LET m == Skip(s, k + 1, {Digit(d) : d \in 0..9}, TRUE)
    IN  IF k <= Len(s) /\ Lower(s[k]) = "q" /\ m > k + 1 /\ m <= Len(s) /\ s[m] = "."
        THEN m ELSE 0

\* headingRe.test(line)
headingRe(line) ==
    LET m == SectionAt(line, Skip(line, 1, Space, TRUE))
    IN  m # 0 /\ Skip(line, m, {"\n", "\r"}, FALSE) > Len(line)

\* qRe.test(line)
qRe(line) == QAt(line, Skip(line, 1, Space, TRUE)) # 0

\* the count goes on over the heading
Restarted_Kept(count) == count

\* count = 0 at a heading
Restarted(count) == 0

\* the renumbering of formatResultHtml: the lines of txt, the questions of a
\* section counted from 1
Renumbered(txt) ==
    LET RECURSIVE Lines(_, _, _, _)
        Lines(lines, i, count, inSection) ==
            IF i > Len(lines) THEN <<>>
            ELSE IF headingRe(lines[i])
            THEN <<lines[i]>> \o Lines(lines, i + 1, Restarted(count), TRUE)
            ELSE IF inSection /\ qRe(lines[i])
            THEN LET k == Skip(lines[i], 1, Space, TRUE)
                     m == QAt(lines[i], k)
                     n == Skip(lines[i], m + 1, Space, TRUE)
                 IN  <<SubSeq(lines[i], 1, k - 1) \o <<"Q">> \o ToDigits(count + 1)
                         \o <<".", " ">> \o SubSeq(lines[i], n, Len(lines[i]))>>
                     \o Lines(lines, i + 1, count + 1, inSection)
            ELSE <<lines[i]>> \o Lines(lines, i + 1, count, inSection)
    IN  Join(Lines(Split(txt), 1, 0, FALSE))

\* s.replace(/c/g, by) for the character c
RECURSIVE ReplaceAll(_, _, _)
ReplaceAll(s, c, by) ==
    LET i == Skip(s, 1, {c}, FALSE)
    IN  IF i > Len(s) THEN s
        ELSE SubSeq(s, 1, i - 1) \o by \o ReplaceAll(SubSeq(s, i + 1, Len(s)), c, by)

\* the quotes left as they are
escapeHtml_Quotes(unsafe) ==
    ReplaceAll(ReplaceAll(ReplaceAll(unsafe,
        "&", <<"&", "a", "m", "p", ";">>),
        "<", <<"&", "l", "t", ";">>),
        ">", <<"&", "g", "t", ";">>)

escapeHtml(unsafe) ==
    ReplaceAll(ReplaceAll(ReplaceAll(ReplaceAll(ReplaceAll(unsafe,
        "&", <<"&", "a", "m", "p", ";">>),
        "<", <<"&", "l", "t", ";">>),
        ">", <<"&", "g", "t", ";">>),
        "\"", <<"&", "q", "u", "o", "t", ";">>),
        "'", <<"&", "#", "0", "3", "9", ";">>)

\* out.replace(/\*\*(.+?)\*\*/g, "<strong>$1</strong>")
RECURSIVE Bold(_)
Bold(s) ==
    LET open == {i \in 1..Len(s) - 4 :
                    /\ s[i] = "*" /\ s[i + 1] = "*"
                    /\ \E j \in i + 3..Len(s) - 1 :
                          /\ s[j] = "*" /\ s[j + 1] = "*"
                          /\ \A k \in i + 2..j - 1 : s[k] \notin {"\n", "\r"}}
        i == CHOOSE a \in open : \A b \in open : a <= b
        shut == {j \in i + 3..Len(s) - 1 :
                    /\ s[j] = "*" /\ s[j + 1] = "*"
                    /\ \A k \in i + 2..j - 1 : s[k] \notin {"\n", "\r"}}
        j == CHOOSE a \in shut : \A b \in shut : a <= b
    IN  IF open = {} THEN s
        ELSE SubSeq(s, 1, i - 1) \o <<"<strong>">> \o SubSeq(s, i + 2, j - 1)
             \o <<"</strong>">> \o Bold(SubSeq(s, j + 2, Len(s)))

\* the match of one of the three line patterns at the line start p of s: what
\* replaces it and where it ends, or nothing
\*   /^\s*(Section\s+[A-Z0-9\-\u2013].*)$/gim
\*   /^\s*(Q\d+\.)\s*(.*)$/gim
\*   /^\s*([a-d])\)\s*(.*)$/gim
LineMatch(s, p, rule) ==
    LET k == Skip(s, p, Space, TRUE)
        dot == QAt(s, k)
        none == [to |-> 0, by |-> <<>>]
    IN  CASE rule = "h3" ->
               IF SectionAt(s, k) = 0 THEN none
               ELSE LET m == SectionAt(s, k)
                        ee == Skip(s, m, {"\n", "\r"}, FALSE)
                    IN  [to |-> ee,
                         by |-> <<"<h3 class=\"text-xl font-extrabold text-secondary mb-3\">">>
                                \o SubSeq(s, k, ee - 1) \o <<"</h3>">>]
          [] rule = "q" ->
               IF dot = 0 THEN none
               ELSE LET n == Skip(s, dot + 1, Space, TRUE)
                        ee == Skip(s, n, {"\n", "\r"}, FALSE)
                    IN  [to |-> ee,
                         by |-> <<"<p class=\"text-lg font-semibold mb-3\">", "<strong>">>
                                \o SubSeq(s, k, dot) \o <<"</strong>", " ">>
                                \o SubSeq(s, n, ee - 1) \o <<"</p>">>]
          [] OTHER ->
               IF ~(k + 1 <= Len(s) /\ Lower(s[k]) \in {"a", "b", "c", "d"} /\ s[k + 1] = ")")
               THEN none
               ELSE LET n == Skip(s, k + 2, Space, TRUE)
                        ee == Skip(s, n, {"\n", "\r"}, FALSE)
                    IN  [to |-> ee,
                         by |-> <<"<div class=\"ml-6 mb-2 text-base\">", "<strong class=\"mr-2\">",
                                  s[k], ")", "</strong>">>
                                \o SubSeq(s, n, ee - 1) \o <<"</div>">>]

\* out.replace(pattern, markup) for one of the three line patterns, from the
\* line start p on
RECURSIVE Styled(_, _, _)
Styled(s, p, rule) ==
    IF p > Len(s) THEN <<>>
    ELSE LET m == LineMatch(s, p, rule)
             e == IF m.to = 0 THEN p ELSE m.to
             next == Skip(s, e, {"\n", "\r"}, FALSE) + 1
         IN  m.by \o SubSeq(s, e, IF next > Len(s) THEN Len(s) ELSE next - 1)
                  \o Styled(s, next, rule)

\* out.replace(/\n{2,}/g, '</p><p class="mb-4">').replace(/\n/g, "<br />")
RECURSIVE Spaced(_)
Spaced(s) ==
    LET i == Skip(s, 1, {"\n"}, FALSE)
        n == Skip(s, i, {"\n"}, TRUE)
    IN  IF i > Len(s) THEN s
        ELSE SubSeq(s, 1, i - 1)
             \o (IF n > i + 1 THEN <<"</p>", "<p class=\"mb-4\">">> ELSE <<"<br />">>)
             \o Spaced(SubSeq(s, n, Len(s)))

formatResultHtml(txt) ==
    LET out == Spaced(Styled(Styled(Styled(Bold(escapeHtml(Renumbered(txt))),
                   1, "h3"), 1, "q"), 1, "opt"))
    IN  IF txt = <<>> THEN <<>>
        ELSE IF \E t \in {<<"<", "h", "3", ">">>, <<"<", "p", ">">>} :
                   Len(out) >= Len(t) /\ SubSeq(out, 1, Len(t)) = t
        THEN out
        ELSE <<"<p class=\"mb-4\">">> \o out \o <<"</p>">>

\* -------------------------------------------------------------------- proxy
\* CORS_HEADERS of handleProxy, CORS of the serverless handler
CORS_HEADERS ==
    [k \in {"Access-Control-Allow-Origin", "Access-Control-Allow-Methods",
            "Access-Control-Allow-Headers"} |->
        CASE k = "Access-Control-Allow-Origin" -> "*"
          [] k = "Access-Control-Allow-Methods" -> "POST, OPTIONS"
          [] OTHER -> "Content-Type, Accept, Authorization"]

\* the responses of the upstream as the proxy's fetch delivers them: header
\* names in lower case, the body as bytes
ProxyUpstreams ==
    { [status |-> st, headers |-> h, body |-> b] :
        st \in {200, 201, 404, 500},
        h \in { [k \in {"content-type"} |-> "application/json"],
                [k \in {"content-type"} |-> "text/plain"],
                [k \in {"content-type", "access-control-allow-origin"} |->
                    IF k = "content-type" THEN "application/json"
                    ELSE "https://app.example"] },
        b \in {<<>>, <<123>>, <<123, 125>>, <<81, 49, 46>>, <<255, 0, 128, 10>>} }

\* Buffer.toString("base64"): the sextets of the text, 64 for the padding "="
RECURSIVE Base64(_)
Base64(b) ==
    CASE Len(b) = 0 -> <<>>
      [] Len(b) = 1 -> <<b[1] \div 4, (b[1] % 4) * 16, 64, 64>>
      [] Len(b) = 2 ->
            <<b[1] \div 4, (b[1] % 4) * 16 + b[2] \div 16, (b[2] % 16) * 4, 64>>
      [] OTHER ->
            <<b[1] \div 4, (b[1] % 4) * 16 + b[2] \div 16,
              (b[2] % 16) * 4 + b[3] \div 64, b[3] % 64>>
            \o Base64(SubSeq(b, 4, Len(b)))

\* isBase64Encoded: true: the bytes the platform sends for the base64 text c
RECURSIVE FromBase64(_)
FromBase64(c) ==
    IF Len(c) < 4 THEN <<>>
    ELSE (CASE c[3] = 64 -> <<c[1] * 4 + c[2] \div 16>>
            [] c[4] = 64 -> <<c[1] * 4 + c[2] \div 16, (c[2] % 16) * 16 + c[3] \div 4>>
            [] OTHER -> <<c[1] * 4 + c[2] \div 16, (c[2] % 16) * 16 + c[3] \div 4,
                          (c[3] % 4) * 64 + c[4]>>)
         \o FromBase64(SubSeq(c, 5, Len(c)))

\* the upstream's headers passed on as they are
Mirrored_AsIs(by, h) == h

\* the headers of the mirrored response: headers.set(...) of handleProxy
\* replaces the upstream's header of that name, { ...respHeaders, ...CORS } of
\* the serverless handler adds the three headers under their own names
Mirrored(by, h) ==
    IF by = "express"
    THEN [k \in DOMAIN h \cup {"access-control-allow-origin"} |->
             IF k = "access-control-allow-origin" THEN "*" ELSE h[k]]
    ELSE [k \in DOMAIN h \cup DOMAIN CORS_HEADERS |->
             IF k \in DOMAIN CORS_HEADERS THEN CORS_HEADERS[k] ELSE h[k]]

\* the body of the mirrored response as the client receives it
MirroredBody(by, b) == IF by = "express" THEN b ELSE FromBase64(Base64(b))

\* the response with the CORS headers and the JSON v
ProxyJson(st, v) == [status |-> st, headers |-> CORS_HEADERS, body |-> ResJson(v)]

\* -------------------------------------------------------------------- Init
Init ==
    /\ variant \in Variants
    /\ API_URL \in CASE variant = "C" -> {""}
                     [] variant = "D" -> {"/.netlify/functions/proxy"}
                     [] OTHER -> {"", "/api/generate-questions"}
    /\ file = NoFile
    /\ query \in Queries
    /\ loading = FALSE
    /\ error = NULL
    /\ result = NULL
    /\ selectedSubjectPath = ""
    /\ chatFile = NoFile
    /\ chatValue = ""
    /\ totalMarks = IF variant \in {"A", "B", "D"} THEN <<50>> ELSE <<>>
    /\ sub = [s \in Subs |-> IdleSub]
    /\ Beside

\* --------------------------------------------------------------- runSubmit
\* runSubmit(fArg, qArg) up to its first await (or its early return).
Rejected(s, rec, m) ==
    /\ error' = m
    /\ result' = NULL
    /\ loading' = loading
    /\ sub' = Disturb([Live EXCEPT ![s] =
                   [rec EXCEPT !.pc = "done", !.out = "rejected",
                               !.shown = m, !.toasts = 1]], s)

runSubmit(fArg, qArg) ==
    LET s == NewSlot
        theFile == IF fArg # NoFile THEN fArg ELSE file
        q == Trim(IF qArg # NULL THEN qArg ELSE query)
        rec == [IdleSub EXCEPT !.theFile = theFile, !.q = q,
                               !.older = {t \in Subs : sub[t].pc \in Pending}]
        d == FirstStep(variant, API_URL)
    IN  /\ FreeSlots # {}
        /\ IF theFile = NoFile THEN Rejected(s, rec, "Attach a PDF file first.")
           ELSE IF q = "" THEN Rejected(s, rec, "Enter a query.")
           ELSE /\ error' = NULL
                /\ result' = NULL
                /\ loading' = TRUE
                /\ sub' = Disturb([Live EXCEPT ![s] =
                       [rec EXCEPT !.pc = d.kind, !.idx = d.idx, !.calls = 1,
                                   !.sent = Posted({}, d),
                                   !.tmo = Timer(variant, API_URL, d),
                                   !.toasts = IF d.kind = "probe" /\ d.idx = 1
                                              THEN 1 ELSE 0]], s)

\* ------------------------------------------------------------ user actions
\* handleFile(f), also reached from onDrop
handleFile(f) ==
    /\ variant \in {"A", "B"}
    /\ IF NotPdf(f)
       THEN error' = "Please upload a valid PDF file." /\ file' = NoFile
       ELSE IF f.size > MAX_SIZE
            THEN error' = "PDF exceeds 15MB limit." /\ file' = NoFile
            ELSE error' = NULL /\ file' = f
    /\ sub' = Disturb(Live, 0)
    /\ UNCHANGED <<beside, totalMarks, variant, API_URL, query, loading, result,
                   selectedSubjectPath, chatFile, chatValue>>

\* the chapter Select of the selector: setSelectedSubjectPath(p), then
\* handleSelectChapter(p) (handleSelectSubject in D and E) loads the PDF and
\* calls onLoadFile(f), setSelectedSubjectPath(p)
handleSelectChapter(p) ==
    /\ variant # "C"
    /\ selectedSubjectPath' = p
    /\ file' = ChapterFile(p)
    /\ sub' = Live
    /\ UNCHANGED <<beside, totalMarks, variant, API_URL, query, loading, error, result,
                   chatFile, chatValue>>

\* the same when the fetch of the PDF fails: a toast, no onLoadFile; the path
\* is set before the fetch, so this is also the page while the PDF is awaited
ChapterLoadFailed(p) ==
    /\ variant # "C"
    /\ selectedSubjectPath' = p
    /\ sub' = Live
    /\ UNCHANGED <<beside, totalMarks, variant, API_URL, file, query, loading, error, result,
                   chatFile, chatValue>>

\* handleSelectSubject(name) of A and B
handleSelectSubject ==
    /\ variant \in {"A", "B"}
    /\ selectedSubjectPath' = ""
    /\ file' = NoFile
    /\ sub' = Live
    /\ UNCHANGED <<beside, totalMarks, variant, API_URL, query, loading, error, result,
                   chatFile, chatValue>>

\* the Generate button of the selector (with no path or no marks the handler
\* only toasts and returns); A and B clamp the marks here, D has clamped them
\* in onChange, the selector of E has no marks
SelectorGenerate ==
    /\ variant # "C"
    /\ variant = "E" \/ ~loading
    /\ selectedSubjectPath # ""
    /\ IF variant = "E"
       THEN runSubmit(NoFile, NULL) /\ query' = query /\ totalMarks' = totalMarks
       ELSE LET marks == IF variant = "D" THEN totalMarks[1] ELSE Clamp(totalMarks[1])
            IN  /\ totalMarks # <<>>
                /\ totalMarks' = <<marks>>
                /\ runSubmit(NoFile, GeneratedPrompt(marks))
                /\ query' = GeneratedPrompt(marks)
    /\ UNCHANGED <<beside, variant, API_URL, file, selectedSubjectPath,
                   chatFile, chatValue>>

\* onChange of the Total Marks input and the quick buttons of the selector
onChangeMarks(v) ==
    /\ variant \in {"A", "B", "D"}
    /\ variant = "D" \/ (selectedSubjectPath # "" /\ ~loading)
    /\ totalMarks' = IF v = <<>> THEN <<>>
                     ELSE IF variant = "D" THEN <<Clamp(v[1])>> ELSE v
    /\ sub' = Live
    /\ UNCHANGED <<beside, variant, API_URL, file, query, loading, error, result,
                   selectedSubjectPath, chatFile, chatValue>>

\* submit: if (!loading) await runSubmit()  (the Generate button of E)
submit ==
    /\ variant = "E"
    /\ ~loading
    /\ runSubmit(NoFile, NULL)
    /\ UNCHANGED <<beside, totalMarks, variant, API_URL, file, query, selectedSubjectPath,
                   chatFile, chatValue>>

\* onReset
onReset ==
    /\ variant = "E"
    /\ file' = NoFile
    /\ query' = ""
    /\ error' = NULL
    /\ result' = NULL
    /\ sub' = Disturb(Live, 0)
    /\ UNCHANGED <<beside, totalMarks, variant, API_URL, loading, selectedSubjectPath,
                   chatFile, chatValue>>

\* the Reset button of the selector
SelectorReset ==
    /\ variant # "C"
    /\ variant = "E" \/ ~loading
    /\ selectedSubjectPath' = ""
    /\ file' = NoFile
    /\ query' = ""
    /\ error' = NULL
    /\ result' = NULL
    /\ totalMarks' = IF variant \in {"A", "B"} THEN <<>> ELSE totalMarks
    /\ sub' = Disturb(Live, 0)
    /\ UNCHANGED <<beside, variant, API_URL, loading, chatFile, chatValue>>

\* AnimatedAIChat: typing into the textarea
ChatType(v) ==
    /\ variant = "C"
    /\ chatValue # v
    /\ chatValue' = v
    /\ sub' = Live
    /\ UNCHANGED <<beside, totalMarks, variant, API_URL, file, query, loading, error, result,
                   selectedSubjectPath, chatFile>>

\* AnimatedAIChat.handleFileChange
handleFileChange(f) ==
    /\ variant = "C"
    /\ chatFile' = IF validateFile(f) THEN f ELSE chatFile
    /\ sub' = Live
    /\ UNCHANGED <<beside, totalMarks, variant, API_URL, file, query, loading, error, result,
                   selectedSubjectPath, chatValue>>

\* AnimatedAIChat.handleSendMessage, and onSubmit of the chat page
handleSendMessage ==
    LET q == Trim(chatValue) IN
    IF q = "" \/ chatFile = NoFile
    THEN sub' = Live /\ UNCHANGED <<beside, totalMarks, variant, API_URL, file, query, loading, error,
                               result, selectedSubjectPath, chatFile, chatValue>>
    ELSE /\ file' = chatFile
         /\ query' = q
         /\ runSubmit(chatFile, q)
         /\ UNCHANGED <<beside, totalMarks, variant, API_URL, selectedSubjectPath,
                        chatFile, chatValue>>

\* the Send button: disabled={loading || isTyping || !value.trim()}
ChatSendButton ==
    /\ variant = "C"
    /\ ~loading
    /\ Trim(chatValue) # ""
    /\ handleSendMessage

\* handleKeyDown: Enter without Shift
handleKeyDown ==
    /\ variant = "C"
    /\ Trim(chatValue) # ""
    /\ handleSendMessage

\* ----------------------------------------------------------- network steps
\* the fetch of the awaited sendTo resolves with Response r
Respond(s, r) ==
    /\ sub[s].pc = "send"
    /\ LET d == AfterSend(variant, API_URL, sub[s].idx, sub[s].res, r) IN
       Apply(s, [sub[s] EXCEPT !.skipped = IF d.kind = "finish" THEN @ ELSE r],
             d)
    /\ UNCHANGED <<beside, totalMarks, variant, API_URL, file, query, selectedSubjectPath,
                   chatFile, chatValue>>

\* the timer of the awaited sendTo fires first
Timeout(s) ==
    /\ sub[s].pc = "send"
    /\ Apply(s, [sub[s] EXCEPT !.fails = @ + 1,
                               !.late = IF Aborts(variant) THEN @ ELSE @ + 1],
             AfterSend(variant, API_URL, sub[s].idx, sub[s].res, NoRes))
    /\ UNCHANGED <<beside, totalMarks, variant, API_URL, file, query, selectedSubjectPath,
                   chatFile, chatValue>>

\* the fetch of the awaited sendTo rejects with a TypeError of message e
NetFail(s, e) ==
    /\ sub[s].pc = "send"
    /\ Apply(s, [sub[s] EXCEPT !.fails = @ + 1],
             IF Rethrows(variant, e) THEN Throw(sub[s].idx, e)
             ELSE AfterSend(variant, API_URL, sub[s].idx, sub[s].res, NoRes))
    /\ UNCHANGED <<beside, totalMarks, variant, API_URL, file, query, selectedSubjectPath,
                   chatFile, chatValue>>

\* the awaited checkEndpoint returns ok
ProbeDone(s, ok) ==
    /\ sub[s].pc = "probe"
    /\ Apply(s, sub[s], AfterProbe(variant, API_URL, sub[s].idx, ok))
    /\ UNCHANGED <<beside, totalMarks, variant, API_URL, file, query, selectedSubjectPath,
                   chatFile, chatValue>>

\* resolve(v) settles the promise again
Resolve_Twice(rejected, v) == v

\* resolve(v) of withTimeout's promise: what the awaiting sendTo gets from it,
\* nothing once the timer has rejected the promise
Resolve(rejected, v) == IF rejected THEN NoRes ELSE v

\* a fetch whose withTimeout already rejected resolves with r: p.then runs
\* clearTimeout and resolve(r) on the settled promise
LateSettle(s, r) ==
    /\ sub[s].pc \in Pending
    /\ sub[s].late > 0
    /\ IF Resolve(TRUE, r) = NoRes
       THEN /\ sub' = [Live EXCEPT ![s].late = @ - 1]
            /\ UNCHANGED <<loading, error, result>>
       ELSE Apply(s, [sub[s] EXCEPT !.late = @ - 1],
                  Finish(sub[s].idx, Resolve(TRUE, r)))
    /\ UNCHANGED <<beside, totalMarks, variant, API_URL, file, query,
                   selectedSubjectPath, chatFile, chatValue>>

Next ==
    \/ \E f \in UserFiles : handleFile(f)
    \/ \E p \in Chapters : handleSelectChapter(p)
    \/ \E p \in Chapters : ChapterLoadFailed(p)
    \/ handleSelectSubject
    \/ SelectorGenerate
    \/ onChangeMarks(<<50>>)
    \/ submit
    \/ onReset
    \/ SelectorReset
    \/ \E v \in Queries : ChatType(v)
    \/ \E f \in UserFiles : handleFileChange(f)
    \/ ChatSendButton
    \/ handleKeyDown
    \/ \E s \in Subs, r \in Responses : Respond(s, r)
    \/ \E s \in Subs : Timeout(s)
    \/ \E s \in Subs, e \in NetErrors : NetFail(s, e)
    \/ \E s \in Subs, ok \in BOOLEAN : ProbeDone(s, ok)
    \/ \E s \in Subs, r \in Responses : LateSettle(s, r)

Spec == Init /\ [][Next]_vars

\* The request that invocation s awaits settles: sendTo and checkEndpoint
\* arm a timer for every fetch (withTimeout, AbortController), so each await
\* ends with a response, a rejection or the timeout.
Settle(s) ==
    \/ \E r \in Responses : Respond(s, r)
    \/ Timeout(s)
    \/ \E e \in NetErrors : NetFail(s, e)
    \/ \E ok \in BOOLEAN : ProbeDone(s, ok)

\* The page with a chapter PDF loaded and a query in place (in the chat: a
\* PDF attached and a query typed), from where the user submits and resets.
Ready ==
    /\ variant \in Variants
    /\ API_URL \in CASE variant = "C" -> {""}
                     [] variant = "D" -> {"/.netlify/functions/proxy"}
                     [] OTHER -> {"", "/api/generate-questions"}
    /\ file = IF variant = "C" THEN NoFile ELSE ChapterFile("/datafiles/9/physics/ch1.pdf")
    /\ query = " quiz "
    /\ loading = FALSE
    /\ error = NULL
    /\ result = NULL
    /\ selectedSubjectPath = IF variant = "C" THEN "" ELSE "/datafiles/9/physics/ch1.pdf"
    /\ chatFile = IF variant = "C" THEN MkFile("application/pdf", ".pdf", MAX_SIZE)
                  ELSE NoFile
    /\ chatValue = IF variant = "C" THEN " quiz " ELSE ""
    /\ totalMarks = IF variant \in {"A", "B", "D"} THEN <<50>> ELSE <<>>
    /\ sub = [s \in Subs |-> IdleSub]
    /\ Beside

NextReady ==
    \/ SelectorGenerate
    \/ submit
    \/ onReset
    \/ SelectorReset
    \/ ChatSendButton
    \/ handleKeyDown
    \/ \E s \in Subs, r \in Responses : Respond(s, r)
    \/ \E s \in Subs : Timeout(s)
    \/ \E s \in Subs, e \in NetErrors : NetFail(s, e)
    \/ \E s \in Subs, ok \in BOOLEAN : ProbeDone(s, ok)
    \/ \E s \in Subs, r \in Responses : LateSettle(s, r)

FairSpec == Ready /\ [][NextReady]_vars /\ \A s \in Subs : WF_vars(Settle(s))

\* ---------------------------------------------------------- settings actions
\* the settings page writes part p of the settings to the item
saveSettings(p) ==
    /\ storage' = Stringify(p)
    /\ saved' = p
    /\ UNCHANGED <<page, settings, mounted, download, relay, aside>>

\* the page is opened: its state is the useState initial values and the mount
\* effect reads the item
MountIndex ==
    /\ ~mounted
    /\ mounted' = TRUE
    /\ settings' = Loaded(settings, storage)
    /\ query' = IF storage # NoItem /\ ~Unparsable(storage)
                   /\ settings'.defaultQuery # ""
                THEN settings'.defaultQuery ELSE query
    /\ UNCHANGED <<totalMarks, variant, API_URL, file, loading, error, result,
                   selectedSubjectPath, chatFile, chatValue, sub,
                   storage, saved, download, relay, aside>>

\* the page is left or reloaded: its state is gone
UnmountIndex ==
    /\ mounted
    /\ mounted' = FALSE
    /\ settings' = DEFAULT_SETTINGS
    /\ query' = ""
    /\ UNCHANGED <<totalMarks, variant, API_URL, file, loading, error, result,
                   selectedSubjectPath, chatFile, chatValue, sub,
                   storage, saved, download, relay, aside>>

InitSettings ==
    /\ variant \in Variants
    /\ API_URL = ""
    /\ file = NoFile
    /\ query = ""
    /\ loading = FALSE
    /\ error = NULL
    /\ result = NULL
    /\ selectedSubjectPath = ""
    /\ chatFile = NoFile
    /\ chatValue = ""
    /\ totalMarks = <<>>
    /\ sub = [s \in Subs |-> IdleSub]
    /\ storage = NoItem
    /\ saved = <<>>
    /\ settings = DEFAULT_SETTINGS
    /\ mounted = FALSE
    /\ download = NoDownload(<<>>)
    /\ relay = RelayIdle
    /\ Aside

NextSettings ==
    \/ \E p \in Partials : saveSettings(p)
    \/ MountIndex
    \/ UnmountIndex

SpecSettings == InitSettings /\ [][NextSettings]_vars

\* ---------------------------------------------------------- download action
\* the Download button, pressed at instant iso
onDownload(iso) ==
    /\ download' = [by |-> variant, q |-> download.q,
                    slug |-> safeQuery(variant, download.q),
                    name |-> Filename(variant, download.q, iso)]
    /\ UNCHANGED <<page, storage, saved, settings, mounted, relay, aside>>

InitDownload ==
    /\ variant \in {"A", "B", "C", "D"}
    /\ API_URL = ""
    /\ file = NoFile
    /\ query = ""
    /\ loading = FALSE
    /\ error = NULL
    /\ result = NULL
    /\ selectedSubjectPath = ""
    /\ chatFile = NoFile
    /\ chatValue = ""
    /\ totalMarks = <<>>
    /\ sub = [s \in Subs |-> IdleSub]
    /\ storage = NoItem
    /\ saved = <<>>
    /\ settings = DEFAULT_SETTINGS
    /\ mounted = TRUE
    /\ download \in {NoDownload(q) : q \in Joined(MaxPieces)}
    /\ relay = RelayIdle
    /\ Aside

NextDownload == \E iso \in Instants : onDownload(iso)

SpecDownload == InitDownload /\ [][NextDownload]_vars

\* ------------------------------------------------------------ relay actions
\* handleGenerate(req, res) up to the await of the fetch
handleGenerate(req) ==
    /\ relay.pc # "fetching"
    /\ relay' = IF req.files = {}
                THEN [pc |-> "answered", form |-> {}, query |-> QueryOf(req.body),
                      up |-> NoUp, thrown |-> "", sent |-> 1,
                      res |-> MkAnswer(400, [error |-> "Missing PDF file. Use 'pdf' field."])]
                ELSE [pc |-> "fetching",
                      form |-> {"pdf"} \cup (IF QueryOf(req.body) # ""
                                             THEN {"query"} ELSE {}),
                      query |-> QueryOf(req.body), up |-> NoUp, thrown |-> "",
                      sent |-> 0, res |-> [status |-> 0, body |-> <<>>]]
    /\ UNCHANGED <<page, storage, saved, settings, mounted, download, aside>>

\* the fetch resolves with the upstream's response u
UpstreamResponds(u) ==
    /\ relay.pc = "fetching"
    /\ relay' = [relay EXCEPT !.pc = "answered", !.up = u, !.sent = @ + 1,
                     !.res = Answer(u)]
    /\ UNCHANGED <<page, storage, saved, settings, mounted, download, aside>>

\* the catch block: the answer to the error thrown
Caught(name, msg) ==
    IF name = "AbortError" THEN MkAnswer(504, [error |-> "Upstream timeout"])
    ELSE InternalError(msg)

\* the 30 s timer aborts the fetch, which rejects with an AbortError
UpstreamAborted ==
    /\ relay.pc = "fetching"
    /\ relay' = [relay EXCEPT !.pc = "answered", !.thrown = "AbortError",
                     !.sent = @ + 1,
                     !.res = Caught("AbortError", "This operation was aborted")]
    /\ UNCHANGED <<page, storage, saved, settings, mounted, download, aside>>

\* the fetch rejects: the upstream cannot be reached
UpstreamUnreachable ==
    /\ relay.pc = "fetching"
    /\ relay' = [relay EXCEPT !.pc = "answered", !.thrown = "TypeError",
                     !.sent = @ + 1, !.res = Caught("TypeError", "fetch failed")]
    /\ UNCHANGED <<page, storage, saved, settings, mounted, download, aside>>

InitRelay ==
    /\ variant = "A"
    /\ API_URL = ""
    /\ file = NoFile
    /\ query = ""
    /\ loading = FALSE
    /\ error = NULL
    /\ result = NULL
    /\ selectedSubjectPath = ""
    /\ chatFile = NoFile
    /\ chatValue = ""
    /\ totalMarks = <<>>
    /\ sub = [s \in Subs |-> IdleSub]
    /\ Beside

NextRelay ==
    \/ \E req \in Requests : handleGenerate(req)
    \/ \E u \in Upstreams : UpstreamResponds(u)
    \/ UpstreamAborted
    \/ UpstreamUnreachable

SpecRelay == InitRelay /\ [][NextRelay]_vars

\* ------------------------------------------------------------ proxy actions
\* handleProxy(req, res) of src/server/routes/proxy.ts (by = "express") and
\* handler(event) of the serverless function, up to the await of the fetch
handleProxy(by, method) ==
    /\ relay.pc # "fetching"
    /\ relay' =
         CASE method = "OPTIONS" ->
                [pc |-> "answered", by |-> by, method |-> method, calls |-> 0,
                 failed |-> FALSE, up |-> <<>>,
                 res |-> [status |-> 200, headers |-> CORS_HEADERS, body |-> <<>>]]
           [] method # "POST" ->
                [pc |-> "answered", by |-> by, method |-> method, calls |-> 0,
                 failed |-> FALSE, up |-> <<>>,
                 res |-> ProxyJson(405, [error |-> "Method Not Allowed"])]
           [] OTHER ->
                [pc |-> "fetching", by |-> by, method |-> method, calls |-> 1,
                 failed |-> FALSE, up |-> <<>>, res |-> <<>>]
    /\ UNCHANGED <<page, storage, saved, settings, mounted, download, aside>>

\* the fetch and arrayBuffer() resolve: status, headers and body are mirrored
ProxyMirrors(u) ==
    /\ relay.pc = "fetching"
    /\ relay' = [relay EXCEPT !.pc = "answered", !.up = u,
                     !.res = [status |-> u.status,
                              headers |-> Mirrored(relay.by, u.headers),
                              body |-> MirroredBody(relay.by, u.body)]]
    /\ UNCHANGED <<page, storage, saved, settings, mounted, download, aside>>

\* the fetch or arrayBuffer() rejects with an error of message msg
ProxyFails(msg) ==
    /\ relay.pc = "fetching"
    /\ relay' = [relay EXCEPT !.pc = "answered", !.failed = TRUE,
                     !.res = ProxyJson(502, [error |-> "Proxy error", message |-> msg])]
    /\ UNCHANGED <<page, storage, saved, settings, mounted, download, aside>>

InitProxy ==
    /\ variant = "A"
    /\ API_URL = ""
    /\ file = NoFile
    /\ query = ""
    /\ loading = FALSE
    /\ error = NULL
    /\ result = NULL
    /\ selectedSubjectPath = ""
    /\ chatFile = NoFile
    /\ chatValue = ""
    /\ totalMarks = <<>>
    /\ sub = [s \in Subs |-> IdleSub]
    /\ storage = NoItem
    /\ saved = <<>>
    /\ settings = DEFAULT_SETTINGS
    /\ mounted = TRUE
    /\ download = NoDownload(<<>>)
    /\ relay = [pc |-> "idle"]
    /\ Aside

NextHandleProxy ==
    \/ \E by \in {"express", "netlify"}, m \in {"OPTIONS", "POST", "GET", "PUT"} :
          handleProxy(by, m)
    \/ \E u \in ProxyUpstreams : ProxyMirrors(u)
    \/ \E msg \in {"fetch failed", "terminated"} : ProxyFails(msg)

SpecProxy == InitProxy /\ [][NextHandleProxy]_vars

\* ------------------------------------------------------------ paper actions
\* the paper view renders: dangerouslySetInnerHTML of formatResultHtml(result)
RenderPaper ==
    /\ ~paper.shown
    /\ paper' = [txt |-> paper.txt, renumbered |-> Renumbered(paper.txt),
                 html |-> formatResultHtml(paper.txt), shown |-> TRUE]
    /\ UNCHANGED <<page, storage, saved, settings, mounted, download, relay, session>>

InitPaper ==
    /\ variant \in {"A", "B"}
    /\ API_URL = ""
    /\ file = NoFile
    /\ query = ""
    /\ loading = FALSE
    /\ error = NULL
    /\ result = NULL
    /\ selectedSubjectPath = ""
    /\ chatFile = NoFile
    /\ chatValue = ""
    /\ totalMarks = <<>>
    /\ sub = [s \in Subs |-> IdleSub]
    /\ storage = NoItem
    /\ saved = <<>>
    /\ settings = DEFAULT_SETTINGS
    /\ mounted = TRUE
    /\ download = NoDownload(<<>>)
    /\ relay = [pc |-> "idle"]
    /\ paper \in {NoPaper(txt) : txt \in Papers(MaxLines)}
    /\ session = MkSession(DEMO_EMAIL, "/", "Index")

SpecPaper == InitPaper /\ [][RenderPaper]_vars

\* --------------------------------------------------------- selector actions
InitSelector ==
    /\ variant \in {"A", "B", "D"}
    /\ API_URL = IF variant = "D" THEN "/.netlify/functions/proxy" ELSE ""
    /\ file = NoFile
    /\ query = ""
    /\ loading = FALSE
    /\ error = NULL
    /\ result = NULL
    /\ selectedSubjectPath = ""
    /\ chatFile = NoFile
    /\ chatValue = ""
    /\ totalMarks = <<>>
    /\ sub = [s \in Subs |-> IdleSub]
    /\ storage = NoItem
    /\ saved = <<>>
    /\ settings = DEFAULT_SETTINGS
    /\ mounted = TRUE
    /\ download = NoDownload(<<>>)
    /\ relay = RelayIdle
    /\ Aside

NextSelector ==
    \/ \E v \in EnteredMarks : onChangeMarks(v)
    \/ \E p \in Chapters : handleSelectChapter(p)
    \/ handleSelectSubject
    \/ SelectorGenerate
    \/ SelectorReset
    \/ \E s \in Subs, r \in Responses : Respond(s, r)

SpecSelector == InitSelector /\ [][NextSelector]_vars

\* ------------------------------------------------------------ router actions
\* the browser goes to the location path: AnimatedRoutes renders it
Visit(path) ==
    /\ session' = [session EXCEPT
                      !.pathname = Rendered(path, isLoggedIn(session)).pathname,
                      !.page = Rendered(path, isLoggedIn(session)).page,
                      !.email = <<>>, !.password = "", !.toast = ""]
    /\ UNCHANGED <<page, storage, saved, settings, mounted, download, relay, paper>>

\* onChange of the two inputs of the Login page
TypeLogin(em, pw) ==
    /\ session.page = "Login"
    /\ session' = [session EXCEPT !.email = em, !.password = pw]
    /\ UNCHANGED <<page, storage, saved, settings, mounted, download, relay, paper>>

\* onSubmit of the Login page
onSubmit ==
    LET em == TrimSeq(session.email)
        pw == session.password
    IN  /\ session.page = "Login"
        /\ session' =
             IF em = <<>> \/ pw = "" THEN [session EXCEPT !.toast = "Missing fields"]
             ELSE IF [i \in 1..Len(em) |-> Lower(em[i])]
                        = DEMO_EMAIL
                     /\ pw = "demo123"
             THEN [login(session, em) EXCEPT
                      !.toast = "Welcome",
                      !.pathname = Rendered("/", TRUE).pathname,
                      !.page = Rendered("/", TRUE).page,
                      !.email = <<>>, !.password = ""]
             ELSE [session EXCEPT !.toast = "Invalid credentials"]
        /\ UNCHANGED <<page, storage, saved, settings, mounted, download, relay, paper>>

InitRouter ==
    /\ variant = "A"
    /\ API_URL = ""
    /\ file = NoFile
    /\ query = ""
    /\ loading = FALSE
    /\ error = NULL
    /\ result = NULL
    /\ selectedSubjectPath = ""
    /\ chatFile = NoFile
    /\ chatValue = ""
    /\ totalMarks = <<>>
    /\ sub = [s \in Subs |-> IdleSub]
    /\ storage = NoItem
    /\ saved = <<>>
    /\ settings = DEFAULT_SETTINGS
    /\ mounted = TRUE
    /\ download = NoDownload(<<>>)
    /\ relay = RelayIdle
    /\ paper = NoPaper(<<>>)
    /\ session = MkSession(<<>>, "/login", "Login")

NextRouter ==
    \/ \E path \in {"/", "/settings", "/login", "/generate"} : Visit(path)
    \/ \E em \in {<<>>, <<"x", "@", "y", ".", "z">>,
                  DEMO_EMAIL,
                  <<" ", "D", "e", "m", "o", "@", "D", "E", "M", "O", ".", "c", "o", "m", " ">>},
          pw \in {"", "demo123", "Demo123", "demo123 "} : TypeLogin(em, pw)
    \/ onSubmit

SpecRouter == InitRouter /\ [][NextRouter]_vars

\* ================================================================== claims
Done(s) == sub[s].pc = "done"
Ran(s) == Done(s) /\ sub[s].out # "rejected"
LastCandidate(s) == sub[s].idx = Len(Candidates(variant, API_URL))
OkJsonX == MkRes(200, "application/json", "{\"questions\":\"X\"}")

\* requests of invocation s whose fetch has not settled
InFlight(s) == sub[s].late + (IF sub[s].pc \in Pending THEN 1 ELSE 0)

\* C1: when the first N attempts fail by timeout or network error and attempt
\* N+1 answers 200 with JSON {questions: "X"}, runSubmit ends with
\* result = "X", no error and loading false, for every N below the number of
\* candidates: a run that has met transport failures only does not end before
\* a candidate answers or the last candidate is reached, and the answer is
\* what is displayed.
C1_FallbackDeliversX ==
    \A s \in Subs :
        (Ran(s) /\ sub[s].alone /\ sub[s].skipped = NoRes) =>
            /\ sub[s].res = OkJsonX =>
                   (result = "X" /\ error = NULL /\ loading = FALSE)
            /\ sub[s].res = NoRes => LastCandidate(s)

\* C2: when every candidate fails (non-2xx, HTML content-type or transport
\* failure) the user sees exactly one aggregate network/CORS failure message.
C2_OneAggregateMessage ==
    \A s \in Subs :
        (Ran(s) /\ sub[s].alone
            /\ (sub[s].res = NoRes \/ ~Ok(sub[s].res) \/ IsHtml(sub[s].res))) =>
            /\ error \in {"Network or CORS error. If deployed on Netlify set VITE_PREDICT_ENDPOINT=... Alternatively, enable CORS on the API.", "Request timed out or was aborted"}
            /\ result = NULL
            /\ sub[s].toasts = 1

\* C3: a response becomes the displayed result only if its status is 2xx and
\* its body is JSON or plain text; an HTML response is never displayed.
C3_HtmlNeverDisplayed ==
    \A s \in Subs :
        (Ran(s) /\ sub[s].out = "result") =>
            /\ Ok(sub[s].res)
            /\ ~IsHtml(sub[s].res)
            /\ sub[s].shown # "<html>Not Found</html>"

\* C4: a transport failure of one candidate is never fatal and never shown by
\* itself; an error for a run without a response is surfaced only after all
\* candidates are exhausted.
C4_TransportFailureNotFatal ==
    \A s \in Subs :
        (Ran(s) /\ sub[s].out = "error" /\ sub[s].res = NoRes) =>
            /\ LastCandidate(s)
            /\ sub[s].shown \notin NetErrors

C6_NoCallAbove15MB ==
    \A s \in Subs : sub[s].calls > 0 => sub[s].theFile.size <= MAX_SIZE

\* the strings that are empty or whitespace only
Blank(q) == q \in {"", "  "}

\* C7: runSubmit with an empty or whitespace-only query rejects the
\* submission: an error is set, no network call is issued and loading is not
\* set to true.
C7_BlankQueryRejected ==
    [][\A s \in Subs :
          (sub[s].pc \notin Pending /\ sub'[s].pc # "idle"
              /\ Blank(sub'[s].q)) =>
              /\ sub'[s].pc = "done"
              /\ sub'[s].out = "rejected"
              /\ sub'[s].calls = 0
              /\ error' \in {"Enter a query.", "Attach a PDF file first."}
              /\ loading' = loading]_vars

C7_Witness ==
    \E s \in Subs :
        /\ Done(s)
        /\ sub[s].q = ""
        /\ sub[s].theFile # NoFile
        /\ sub[s].shown = "Enter a query."
        /\ error = "Enter a query."

\* a 2xx response that announces JSON and whose body does not parse
Malformed(r) == r # NoRes /\ Ok(r) /\ IsJson(r) /\ r.body # "{\"questions\":\"X\"}"

C10_NeverTwoInFlight == \A s \in Subs : InFlight(s) <= 1

\* C10 (amended): attempts are awaited one at a time; a request stays in
\* flight beside its successor only if its attempt timed out under
\* withTimeout (A, B), and never in the revisions that abort the fetch.
C10_OnlyTimedOutLinger ==
    \A s \in Subs :
        /\ sub[s].late <= sub[s].fails
        /\ InFlight(s) <= sub[s].calls
        /\ variant \in {"C", "D", "E"} => InFlight(s) <= 1

C10_Witness ==
    \E s \in Subs : sub[s].pc = "send" /\ sub[s].late >= 1 /\ variant = "A"

\* C11: a submission started while an earlier one is pending supersedes it:
\* once the later one has finished, the displayed result and error are the
\* later one's, so the earlier one, finishing after it, changes neither.
C11_LaterSupersedes ==
    [][\A t \in Subs :
          (sub[t].pc \in Pending /\ sub[t].overtaken /\ sub'[t].pc = "done") =>
              (result' = result /\ error' = error)]_vars

\* the URL of candidate j of the deployed revision
Url(j) == Candidates(variant, API_URL)[j]

\* C12: the POSTs of one submission are bounded by the candidate list: each
\* candidate is POSTed to at most once, in list order, and an endpoint is
\* POSTed to a second time only by the single retry of the autoRetry setting
\* (which no revision of runSubmit reads: no retry is ever made).
C12_EachCandidateOnce ==
    \A s \in Subs :
        sub[s].pc = "send" =>
            /\ sub[s].idx \in sub[s].sent
            /\ \A j \in sub[s].sent :
                  /\ j <= sub[s].idx
                  /\ j # sub[s].idx => Url(j) # Url(sub[s].idx)

\* C13: the first POST of a submission runs under initialTimeoutMs and every
\* later one under retryTimeoutMs.
C13_FirstInitialLaterRetry ==
    \A s \in Subs :
        sub[s].pc = "send" =>
            sub[s].tmo = IF Cardinality(sub[s].sent) = 1
                         THEN "initialTimeoutMs" ELSE "retryTimeoutMs"

\* the body of the POST that invocation s has in flight
BodyOf(s) == Body(variant, Url(sub[s].idx), sub[s].theFile)

\* C14: a submission with a non-empty query and no file is delivered, with
\* the JSON body {query}; with a file the POST carries a multipart form with
\* pdf and query, and with the file again as "file" for an external URL.
C14_BodyShapes ==
    \A s \in Subs :
        (sub[s].pc # "idle" /\ sub[s].q # "") =>
            /\ sub[s].theFile = NoFile =>
                   /\ sub[s].out # "rejected"
                   /\ sub[s].pc = "send" => BodyOf(s) = JsonBody
            /\ (sub[s].theFile # NoFile /\ sub[s].pc = "send") =>
                   BodyOf(s) = FormBody(IF Url(sub[s].idx) = DIRECT_API_URL
                                        THEN {"pdf", "query", "file"}
                                        ELSE {"pdf", "query"})

\* the submission state as onReset leaves it
Cleared == file = NoFile /\ query = "" /\ error = NULL /\ result = NULL

\* C20: after onReset the file, the query, the error and the result are
\* absent and stay so until the user attaches a file, edits the query or
\* submits: the return of a submission that was pending at the reset is none
\* of these and leaves the state cleared.
C20_ResetStaysCleared ==
    [][\A s \in Subs :
          (Cleared /\ sub[s].pc \in Pending /\ sub'[s].pc = "done") =>
              Cleared']_vars

C15_SavedThenLoaded ==
    [][(~mounted /\ mounted' /\ storage # NoItem) =>
          \A k \in DOMAIN DEFAULT_SETTINGS :
              settings'[k] = IF k \in DOMAIN saved THEN saved[k]
                             ELSE DEFAULT_SETTINGS[k]]_vars

\* the page loaded {initialTimeoutMs: 30000, autoRetry: false}
C15_Witness ==
    /\ mounted
    /\ saved = [initialTimeoutMs |-> 30000, autoRetry |-> FALSE]
    /\ settings = [initialTimeoutMs |-> 30000, retryTimeoutMs |-> 55000,
                   autoRetry |-> FALSE, defaultQuery |-> ""]

C17_SlugOfQuery ==
    download.by # "none" =>
        /\ \A i \in 1..Len(download.slug) : IsSlugChar(download.slug[i])
        /\ Len(download.slug) \in 1..60
        /\ \E iso \in Instants :
              download.name
                  = download.slug \o <<"_">> \o Stamp(iso) \o Extension(download.by)
        /\ TrimSeq(download.q) # <<>> =>
              \A i \in 1..Len(verbs) :
                  safeQuery(download.by, verbs[i] \o <<" ">> \o download.q)
                      = download.slug

\* the relay answered a response of the upstream that was 2xx
Answered2xx == relay.pc = "answered" /\ relay.up # NoUp /\ UpOk(relay.up)

\* the answer passes the upstream's JSON on, or wraps its text as {result}
SuccessShape ==
    /\ relay.res.status = 200
    /\ relay.up.readable
    /\ IF IncludesJson(contentType(relay.up))
       THEN ~Unparsable(relay.up.body)
            /\ Parse(relay.res.body) = Parse(relay.up.body)
       ELSE Parse(relay.res.body) = [result |-> Text(relay.up.body)]

\* C18: handleGenerate answers every 2xx response of the upstream with status
\* 200 and either the upstream's JSON unchanged (content-type
\* application/json) or its text as {result: text}, and no answer of status
\* 200 has another shape.
C18_Every2xxIsSuccess ==
    /\ Answered2xx => SuccessShape
    /\ (relay.pc = "answered" /\ relay.res.status = 200) =>
          Answered2xx /\ SuccessShape

\* the body of a 2xx response that cannot be passed on
Unusable(u) ==
    ~u.readable \/ (IncludesJson(contentType(u)) /\ Unparsable(u.body))

\* C18, amended: a 2xx response of the upstream whose body is read (and, when
\* it is announced as JSON, parses) is answered with 200 and the JSON
\* unchanged or the text as {result: text}; one whose body cannot be read or
\* parsed is answered with 500 "Internal server error"; no answer of status
\* 200 has another shape.
C18_Usable2xxIsSuccess ==
    /\ (Answered2xx /\ ~Unusable(relay.up)) => SuccessShape
    /\ (Answered2xx /\ Unusable(relay.up)) =>
          /\ relay.res.status = 500
          /\ Parse(relay.res.body).error = "Internal server error"
    /\ (relay.pc = "answered" /\ relay.res.status = 200) =>
          Answered2xx /\ SuccessShape

\* the relay passed on JSON that was announced with a charset parameter
C18_Witness ==
    /\ Answered2xx
    /\ relay.res.status = 200
    /\ relay.up.ctype = "application/json; charset=utf-8"
    /\ relay.res.body = ResJson([result |-> "Y", message |-> "m"])

\* C21: at most one submission is in flight at any time: while one is
\* loading, no user action (the form's submit, the selector's Generate, the
\* chat's Send button or Enter key) starts a second runSubmit.
C21_OneSubmissionInFlight ==
    \A s, t \in Subs : (sub[s].pc \in Pending /\ sub[t].pc \in Pending) => s = t

C23_SelectedChapterSent ==
    [][\A s \in Subs :
          (variant \in {"A", "B", "D"}
              /\ sub[s].pc \notin Pending /\ sub'[s].pc \in Pending
              /\ sub'[s].theFile \in {ChapterFile(p) : p \in Chapters}) =>
              sub'[s].theFile = ChapterFile(selectedSubjectPath)]_vars

AllowsAnyOrigin(res) ==
    \E k \in DOMAIN res.headers :
        /\ k \in {"Access-Control-Allow-Origin", "access-control-allow-origin"}
        /\ res.headers[k] = "*"

QNumber(line) ==
    LET k == Skip(line, 1, Space, TRUE)
    IN  FromDigits(SubSeq(line, k + 1, QAt(line, k) - 1))

\* C27: formatResultHtml renumbers the questions per section: the "Q<n>." lines
\* after a "Section ..." heading are numbered 1, 2, ... in their order up to
\* the next heading, where the count starts again; every other line, the
\* "Q<n>." lines before the first heading among them, stays as it is.
C27_RenumberedPerSection ==
    paper.shown =>
        LET in == Split(paper.txt)
            out == Split(paper.renumbered)
        IN  /\ Len(out) = Len(in)
            /\ \A i \in 1..Len(in) :
                  LET heads == {h \in 1..i - 1 : headingRe(in[h])}
                      last == CHOOSE h \in heads : \A g \in heads : g <= h
                  IN  IF headingRe(in[i]) \/ ~qRe(in[i]) \/ heads = {}
                      THEN out[i] = in[i]
                      ELSE /\ qRe(out[i])
                           /\ out[i][Skip(out[i], 1, Space, TRUE)] = "Q"
                           /\ QNumber(out[i])
                                 = Cardinality({j \in last + 1..i : qRe(in[j])})

\* a text with a question before the first heading and two sections whose
\* questions carry other numbers was rendered
C27_Witness ==
    /\ paper.shown
    /\ LET in == Split(paper.txt)
           out == Split(paper.renumbered)
       IN  /\ Len(in) >= 5
           /\ qRe(in[1]) /\ QNumber(out[1]) = 7
           /\ headingRe(in[2])
           /\ qRe(in[3]) /\ QNumber(in[3]) = 3 /\ QNumber(out[3]) = 1
           /\ headingRe(in[4])
           /\ qRe(in[5]) /\ QNumber(in[5]) = 3 /\ QNumber(out[5]) = 1

\* the entity escapeHtml writes for the character c
Entity(c) ==
    CASE c = "&" -> <<"&", "a", "m", "p", ";">>
      [] c = "<" -> <<"&", "l", "t", ";">>
      [] c = ">" -> <<"&", "g", "t", ";">>
      [] c = "\"" -> <<"&", "q", "u", "o", "t", ";">>
      [] c = "'" -> <<"&", "#", "0", "3", "9", ";">>

\* the positions of s where the characters of e stand
Places(s, e) ==
    {i \in 1..Len(s) - Len(e) + 1 : SubSeq(s, i, i + Len(e) - 1) = e}

\* C28: formatResultHtml escapes the text before it adds markup: each "&", "<",
\* ">", """ and "'" of the text is in the HTML as its entity and in no other
\* form, and every tag of the HTML is one the formatter inserts.
C28_EscapedBeforeMarkup ==
    paper.shown =>
        /\ \A i \in 1..Len(paper.html) :
              /\ paper.html[i] \notin {"<", ">", "\"", "'"}
              /\ paper.html[i] = "&" =>
                    \E c \in {"&", "<", ">", "\"", "'"} :
                        i \in Places(paper.html, Entity(c))
              /\ Len(paper.html[i]) > 1 =>
                    paper.html[i] \in
                        {"<strong>", "</strong>", "</h3>", "</p>", "</div>", "<br />",
                         "<h3 class=\"text-xl font-extrabold text-secondary mb-3\">",
                         "<p class=\"text-lg font-semibold mb-3\">",
                         "<div class=\"ml-6 mb-2 text-base\">",
                         "<strong class=\"mr-2\">", "<p class=\"mb-4\">"}
        /\ \A c \in {"&", "<", ">", "\"", "'"} :
              Cardinality(Places(paper.html, Entity(c)))
                  = Cardinality(Places(paper.txt, <<c>>))

\* a text with all five characters was rendered with a heading and an option
C28_Witness ==
    /\ paper.shown
    /\ \A c \in {"&", "<", ">", "\"", "'"} : Places(paper.txt, <<c>>) # {}
    /\ \E i, j \in 1..Len(paper.html) :
          /\ paper.html[i] = "<h3 class=\"text-xl font-extrabold text-secondary mb-3\">"
          /\ paper.html[j] = "<strong class=\"mr-2\">"

\* C29: the total marks in the prompt that the selector's Generate submits are
\* between 20 and 100, whatever was entered, and Generate starts no submission
\* while no chapter is selected or no marks are entered.
C29_MarksWithinRange ==
    [][\A s \in Subs :
          (variant \in {"A", "B", "D"} /\ sub[s].pc \notin Pending
           /\ sub'[s].pc \in Pending) =>
              /\ selectedSubjectPath # ""
              /\ totalMarks # <<>>
              /\ \E m \in 20..100 :
                    /\ sub'[s].q = GeneratedPrompt(m)
                    /\ query' = GeneratedPrompt(m)]_vars

\* in A the prompt submitted asks for 20 marks, which only a smaller entry gives
C29_Witness ==
    /\ variant = "A"
    /\ totalMarks = <<20>>
    /\ \E s \in Subs : sub[s].pc \in Pending /\ sub[s].q = GeneratedPrompt(20)

\* C30: the Index and the Settings page are shown only to a visitor who is
\* logged in, a visit to "/" or "/settings" without a login ending at /login,
\* and a login is kept only for the email demo@demo.com, trimmed and in any
\* case, given with the password demo123.
C30_PagesRequireLogin ==
    /\ session.page \in {"Index", "Settings"} => isLoggedIn(session)
    /\ isLoggedIn(session) =>
          [i \in 1..Len(session.user) |-> Lower(session.user[i])]
              = DEMO_EMAIL

====
